---- MODULE Spec2Model ----
(***************************************************************************)
(* A model of profile-building/pull_schema.py: the activation orchestrator *)
(* run(), the token listener get_new_token()/receive_token(), and the PSK  *)
(* handshake callback of TuyaAPIConnection.                                 *)
(*                                                                         *)
(* Python values are tagged records: None is [t |-> "None"], a str is      *)
(* [t |-> "str", v |-> s] with s a sequence of one-character strings, and  *)
(* a bytes object is a sequence of numbers in 0..255.                      *)
(***************************************************************************)
EXTENDS Integers, Sequences, FiniteSets, TLC

VARIABLES
    args,             \* the arguments run() was called with (never assigned)
    pc,               \* position of the main thread inside run()
    uuid,             \* run()'s local uuid (may be replaced by product_key)
    token,            \* run()'s local token
    region,           \* run()'s local region
    connection,       \* the TuyaAPIConnection (None before line 264)
    attempts,         \* the requests sent over the network, in order
    response,         \* run()'s local response
    responses,        \* the responses received, in order (history)
    report,           \* what the run printed last
    written,          \* the files the run wrote
    exitcode,         \* -1 while the process runs, else its exit status
    multicast_token,  \* global, line 35
    cancel_thread,    \* global, line 36
    lpc,              \* position of the listener thread inside receive_token()
    received_token,   \* receive_token()'s local flag
    msg,              \* receive_token()'s last datagram, as received
    lastrecv,         \* what recvfrom did last: "none", "datagram", "timeout"
    pskret,           \* what the last handshake callback returned
    pskhint,          \* the hint the last handshake callback was given
    pskcalls          \* how many handshake callbacks ran

vars == <<args, pc, uuid, token, region, connection, attempts, response,
          responses, report, written, exitcode, multicast_token,
          cancel_thread, lpc, received_token, msg, lastrecv, pskret,
          pskhint, pskcalls>>

runVars == <<args, pc, uuid, token, region, connection, attempts, response,
             responses, report, written, exitcode>>
listenerVars == <<multicast_token, cancel_thread, lpc, received_token, msg,
                  lastrecv>>
pskVars == <<pskret, pskhint, pskcalls>>

-----------------------------------------------------------------------------
(* Python values *)

None == [t |-> "None"]
Str(s) == [t |-> "str", v |-> s]
Num(n) == [t |-> "int", v |-> n]
IsNone(x) == x.t = "None"
IsStr(x) == x.t = "str"

\* s[:n] and s[n:] of Python, on sequences
Take(s, n) == SubSeq(s, 1, IF n < Len(s) THEN n ELSE Len(s))
Drop(s, n) == SubSeq(s, n + 1, Len(s))

Rep(c, n) == [i \in 1..n |-> c]

-----------------------------------------------------------------------------
(* The arguments of run() that the model draws from *)

Uuid16 == <<"u", "u", "i", "d">> \o Rep("1", 12)
Key16 == <<"k", "e", "y">> \o Rep("2", 13)
FwKey == <<"f", "w">> \o Rep("3", 7)
Auth32 == <<"a", "u", "t", "h">> \o Rep("4", 28)

Uuids == {None, Str(Uuid16), Str(<<"u", "u", "i", "d">>)}
AuthKeys == {None, Str(Auth32), Str(<<"a", "u", "t", "h">>)}
ProductKeys == {None, Str(<<>>), Str(Key16), Str(<<"k", "e", "y">>)}
FirmwareKeys == {None, Str(<<>>), Str(FwKey)}
SoftVersions == {None, Str(<<"1", ".", "0">>), Str(<<"1", ".", "0", ".", "5">>)}
CadVersions == {Str(<<"1", ".", "0">>), Str(<<"1", ".", "0", ".", "2">>)}
BaselineVersions == {None, Str(<<"4", "0">>), Str(<<"4", "0", ".", "0", "0">>)}
Prefixes == {None, Str(<<"d", "e", "v", "i", "c", "e">>)}

TokTail == <<"1","2","3","4","5","6","7","8","A","B","C","D">>
TokenAZ == <<"A","Z">> \o TokTail
TokenEU == <<"E","U">> \o TokTail
TokenAY == <<"A","Y">> \o TokTail
TokenZZ == <<"Z","Z">> \o TokTail
TokenShort == <<"A","Z","1","2","3">>
Tokens == {None, Str(TokenAZ), Str(TokenEU), Str(TokenAY), Str(TokenZZ),
           Str(TokenShort)}

-----------------------------------------------------------------------------
(* What the server may answer to one request (the decrypted JSON of        *)
(* request(), line 63), and the ways request() may fail instead            *)

SchemaOk == [t |-> "dict", success |-> TRUE,
             result |-> [schemaId |-> "123", schema |-> "{...}"]]
Fail(code) == [t |-> "dict", success |-> FALSE, errorCode |-> code]
NoErrorCode == [t |-> "dict", success |-> FALSE]

responseCodesToContinueAter ==
    {"FIRMWARE_NOT_MATCH", "APP_PRODUCT_UNSUPPORT", "NOT_EXISTS"}
ErrorCodes == responseCodesToContinueAter \cup {"EXPIRE", "PERMISSION_DENIED"}
Responses == {SchemaOk, NoErrorCode} \cup {Fail(c) : c \in ErrorCodes}

\* response["success"] == False and response["errorCode"] in codes: the
\* dictionary lookups of lines 276 and 284 raise KeyError on a missing key
LookupFails(r) == ~r.success /\ "errorCode" \notin DOMAIN r
\* Retryable with NOT_EXISTS missing from the codes to continue after
RetryableTwoCodes(r) ==
    ~r.success /\ r.errorCode \in {"FIRMWARE_NOT_MATCH", "APP_PRODUCT_UNSUPPORT"}
\* Retryable with EXPIRE taken for a code to continue after
RetryableWithExpire(r) ==
    ~r.success /\ r.errorCode \in responseCodesToContinueAter \cup {"EXPIRE"}
Retryable(r) == ~r.success /\ r.errorCode \in responseCodesToContinueAter

-----------------------------------------------------------------------------
(* run(): validation, lines 226-240 *)

BadLen(x, n) == IsNone(x) \/ Len(x.v) # n
TooShort(x, n) == IsNone(x) \/ Len(x.v) < n
Empty(x) == IsNone(x) \/ Len(x.v) = 0

\* the uuid after lines 226-230 (None: print_and_exit)
ValidatedUuid(a) ==
    IF BadLen(a.uuid, 16)
    THEN IF ~IsNone(a.product_key) /\ Len(a.product_key.v) = 16
         THEN a.product_key
         ELSE None
    ELSE a.uuid

\* ValidationError with the cadVer check of lines 237-238 missing
ValidationErrorNoCad(a) ==
    IF IsNone(ValidatedUuid(a)) THEN "uuid"
    ELSE IF BadLen(a.auth_key, 32) THEN "auth_key"
    ELSE IF Empty(a.product_key) /\ Empty(a.firmware_key) THEN "product_key or firmware_key"
    ELSE IF TooShort(a.software_version, 5) THEN "softVer"
    ELSE IF TooShort(a.baseline_version, 5) THEN "baselineVer"
    ELSE ""

\* ValidationError with the key check of lines 233-234 missing
ValidationErrorNoKeys(a) ==
    IF IsNone(ValidatedUuid(a)) THEN "uuid"
    ELSE IF BadLen(a.auth_key, 32) THEN "auth_key"
    ELSE IF TooShort(a.software_version, 5) THEN "softVer"
    ELSE IF TooShort(a.cad_version, 5) THEN "cadVer"
    ELSE IF TooShort(a.baseline_version, 5) THEN "baselineVer"
    ELSE ""

\* the message of the first failing check of lines 226-240, "" when all pass
ValidationError(a) ==
    IF IsNone(ValidatedUuid(a)) THEN "uuid"
    ELSE IF BadLen(a.auth_key, 32) THEN "auth_key"
    ELSE IF Empty(a.product_key) /\ Empty(a.firmware_key) THEN "product_key or firmware_key"
    ELSE IF TooShort(a.software_version, 5) THEN "softVer"
    ELSE IF TooShort(a.cad_version, 5) THEN "cadVer"
    ELSE IF TooShort(a.baseline_version, 5) THEN "baselineVer"
    ELSE ""

\* print_and_exit, lines 154-156
print_and_exit(text) ==
    /\ report' = [kind |-> "fatal", text |-> text]
    /\ exitcode' = 2
    /\ pc' = "done"

\* an exception nobody catches ends the process with a traceback, status 1
Uncaught(exc) ==
    /\ report' = [kind |-> "traceback", text |-> exc]
    /\ exitcode' = 1
    /\ pc' = "done"

Validate ==
    /\ pc = "validate"
    /\ IF ValidationError(args) # ""
       THEN /\ print_and_exit(ValidationError(args))
            /\ UNCHANGED uuid
       ELSE /\ uuid' = ValidatedUuid(args)
            /\ pc' = "need_token"
            /\ UNCHANGED <<report, exitcode>>
    /\ UNCHANGED <<args, token, region, connection, attempts, response,
                   responses, written>>
    /\ UNCHANGED listenerVars
    /\ UNCHANGED pskVars

-----------------------------------------------------------------------------
(* Bytes and text.  AsciiTable lists the characters the strings of the     *)
(* model are made of; bytes.decode() maps a byte below 0x80 to its         *)
(* character and fails on a byte from 0x80 up: in the datagrams of the     *)
(* model no multi-byte lead byte occurs, so such a byte is always invalid. *)

AsciiTable ==
    { <<"{", 123>>, <<"}", 125>>, <<"\"", 34>>, <<":", 58>>, <<"t", 116>>,
      <<"o", 111>>, <<"k", 107>>, <<"e", 101>>, <<"n", 110>>, <<"u", 117>>,
      <<"l", 108>>, <<"a", 97>>, <<"A", 65>>, <<"B", 66>>, <<"C", 67>>,
      <<"D", 68>>, <<"Z", 90>>, <<"1", 49>>, <<"2", 50>>, <<"3", 51>>,
      <<"4", 52>>, <<"5", 53>>, <<"6", 54>>, <<"7", 55>>, <<"8", 56>>,
      <<"0", 48>>, <<".", 46>>, <<"_", 95>>, <<"?", 63>>, <<"d", 100>>,
      <<"f", 102>>, <<"h", 104>>, <<"i", 105>>, <<"w", 119>>, <<"y", 121>>,
      <<"E", 69>>, <<"U", 85>>, <<"Y", 89>> }

Ord(c) == (CHOOSE p \in AsciiTable : p[1] = c)[2]
Chr(b) == IF \E p \in AsciiTable : p[2] = b
          THEN (CHOOSE p \in AsciiTable : p[2] = b)[1]
          ELSE "<ctl>"

Encode(text) == [i \in 1..Len(text) |-> Ord(text[i])]

\* bytes.decode(), line 214
DecodeOk(bytes) == \A i \in 1..Len(bytes) : bytes[i] < 128
Decode(bytes) == [i \in 1..Len(bytes) |-> Chr(bytes[i])]

\* struct.pack(">I", n) and struct.unpack(">I", b), line 213
PackU32(n) == << n \div 16777216, (n \div 65536) % 256, (n \div 256) % 256,
                 n % 256 >>
UnpackOk(b) == Len(b) = 4
UnpackU32(b) == b[1] * 16777216 + b[2] * 65536 + b[3] * 256 + b[4]

\* msg[a:b] of Python on a bytes object (0-based, end exclusive, clipped)
Slice(s, a, b) == SubSeq(s, a + 1, IF b < Len(s) THEN b ELSE Len(s))

-----------------------------------------------------------------------------
(* json.loads, line 215, on the texts the model's datagrams hold: an       *)
(* object with no member or one member whose value is a string, null or a  *)
(* number, or a bare scalar; no whitespace and no escapes occur in them.   *)

Digits == {"1", "2", "3", "4", "5", "6", "7", "8"}
IsStringLit(s) ==
    /\ Len(s) >= 2
    /\ s[1] = "\""
    /\ s[Len(s)] = "\""
    /\ \A i \in 2..(Len(s) - 1) : s[i] \notin {"\"", "<ctl>"}
IsNumberLit(s) == Len(s) >= 1 /\ \A i \in 1..Len(s) : s[i] \in Digits
IsNullLit(s) == s = <<"n", "u", "l", "l">>
IsScalar(s) == IsStringLit(s) \/ IsNumberLit(s) \/ IsNullLit(s)
ScalarValue(s) ==
    IF IsStringLit(s) THEN Str(SubSeq(s, 2, Len(s) - 1))
    ELSE IF IsNumberLit(s) THEN Num(s)
    ELSE None

\* the position of the colon that ends the member's key, 0 when there is none
KeyEnd(m) ==
    IF \E k \in 2..(Len(m) - 1) : IsStringLit(SubSeq(m, 1, k)) /\ m[k + 1] = ":"
    THEN CHOOSE k \in 2..(Len(m) - 1) : IsStringLit(SubSeq(m, 1, k)) /\ m[k + 1] = ":"
    ELSE 0
IsMember(m) == KeyEnd(m) > 0 /\ IsScalar(SubSeq(m, KeyEnd(m) + 2, Len(m)))
IsObject(s) ==
    /\ Len(s) >= 2
    /\ s[1] = "{"
    /\ s[Len(s)] = "}"
    /\ (Len(s) = 2 \/ IsMember(SubSeq(s, 2, Len(s) - 1)))

JsonOk(s) == IsObject(s) \/ IsScalar(s)
\* a dict is the set of its <<key, value>> members
JsonLoads(s) ==
    IF IsObject(s)
    THEN LET m == SubSeq(s, 2, Len(s) - 1)
         IN [t |-> "dict",
             v |-> IF Len(s) = 2 THEN {}
                   ELSE { << SubSeq(m, 2, KeyEnd(m) - 1),
                             ScalarValue(SubSeq(m, KeyEnd(m) + 2, Len(m))) >> }]
    ELSE ScalarValue(s)

KeyToken == <<"t", "o", "k", "e", "n">>
\* msg["token"], line 216: TypeError on a non-dict, KeyError on a missing key
HasToken(j) == j.t = "dict" /\ \E m \in j.v : m[1] = KeyToken
TokenOf(j) == (CHOOSE m \in j.v : m[1] = KeyToken)[2]

\* line 213: the length field; line 214: the bytes taken as the payload
LengthField(d) == UnpackU32(Slice(d, 12, 16))
\* Payload with the end of the slice at L + 16 instead of L + 8
PayloadPastTrailer(d) == Slice(d, 16, LengthField(d) + 16)
Payload(d) == Slice(d, 16, LengthField(d) + 8)

\* lines 213-216 applied to one datagram: which stage raised, or "ok"
ParseStage(d) ==
    IF ~UnpackOk(Slice(d, 12, 16)) THEN "struct.error"
    ELSE IF ~DecodeOk(Payload(d)) THEN "UnicodeDecodeError"
    ELSE IF ~JsonOk(Decode(Payload(d))) THEN "JSONDecodeError"
    ELSE IF JsonLoads(Decode(Payload(d))).t # "dict" THEN "TypeError"
    ELSE IF ~HasToken(JsonLoads(Decode(Payload(d)))) THEN "KeyError"
    ELSE "ok"
ParsedToken(d) == TokenOf(JsonLoads(Decode(Payload(d))))

-----------------------------------------------------------------------------
(* The datagrams that may arrive on port 6669.  A frame of the app is a    *)
(* 16-byte header whose last four bytes are the length field, the JSON     *)
(* body, and an 8-byte trailer (checksum and suffix); its length field     *)
(* counts body and trailer.                                                *)

Header12 == <<0, 0, 85, 170, 0, 0, 0, 1, 0, 0, 0, 0>>
Trailer == <<18, 52, 86, 120, 0, 0, 170, 85>>
Frame(len, body, trailer) == Header12 \o PackU32(len) \o body \o trailer

Quoted(text) == <<"\"">> \o text \o <<"\"">>
Member(key, value) == <<"{">> \o Quoted(key) \o <<":">> \o value \o <<"}">>
TokenBody(tok) == Encode(Member(KeyToken, Quoted(tok)))
AppFrame(body) == Frame(Len(body) + 8, body, Trailer)

ListenerShort == <<"A", "Z", "1", "2", "3", "4">>
DgToken(tok) == AppFrame(TokenBody(tok))
DgNull == AppFrame(Encode(Member(KeyToken, <<"n", "u", "l", "l">>)))
DgNumber == AppFrame(Encode(Member(KeyToken, <<"5">>)))
\* length field 20 in front of the 26-byte body {"token":"AZ12345678ABCD"}
DgLen20 == Frame(20, TokenBody(TokenAZ), Trailer)
\* a length field that reaches into the trailer
DgLenLong == Frame(60, TokenBody(TokenAZ), Trailer)
DgTruncated == SubSeq(Header12, 1, 10)
DgBadUtf8 == AppFrame(<<255>> \o TokenBody(TokenAZ))
DgNoField == AppFrame(Encode(Member(<<"a">>, Quoted(TokenAZ))))
DgNotObject == AppFrame(Encode(Quoted(TokenAZ)))
DgCutJson == AppFrame(SubSeq(TokenBody(TokenAZ), 1, 20))

GoodDatagrams == {DgToken(TokenAZ), DgToken(TokenZZ), DgToken(ListenerShort),
                  DgNull, DgNumber}
BadDatagrams == {DgLen20, DgLenLong, DgTruncated, DgBadUtf8, DgNoField,
                 DgNotObject, DgCutJson}
Datagrams == GoodDatagrams \cup BadDatagrams

\* lines 213-216 on each datagram of the model, evaluated once
Parsed == [d \in Datagrams |->
             [stage |-> ParseStage(d),
              token |-> IF ParseStage(d) = "ok" THEN ParsedToken(d) ELSE None]]

-----------------------------------------------------------------------------
(* receive_token(), lines 203-223, on the listener thread *)

\* ListenerLoop leaving the loop after any datagram, parsed or not
ListenerLoopOnce ==
    /\ lpc = "loop"
    /\ lpc' = IF lastrecv # "datagram" /\ cancel_thread = FALSE
              THEN "recv" ELSE "exit"
    /\ UNCHANGED <<multicast_token, cancel_thread, received_token, msg,
                   lastrecv>>
    /\ UNCHANGED runVars
    /\ UNCHANGED pskVars

\* ListenerLoop without the test of cancel_thread
ListenerLoopIgnoresCancel ==
    /\ lpc = "loop"
    /\ lpc' = IF received_token = FALSE THEN "recv" ELSE "exit"
    /\ UNCHANGED <<multicast_token, cancel_thread, received_token, msg,
                   lastrecv>>
    /\ UNCHANGED runVars
    /\ UNCHANGED pskVars

\* line 206: the loop test
ListenerLoop ==
    /\ lpc = "loop"
    /\ lpc' = IF received_token = FALSE /\ cancel_thread = FALSE
              THEN "recv" ELSE "exit"
    /\ UNCHANGED <<multicast_token, cancel_thread, received_token, msg,
                   lastrecv>>
    /\ UNCHANGED runVars
    /\ UNCHANGED pskVars

\* lines 212-219 and the except of line 222: one datagram arrives
ListenerDatagram ==
    /\ lpc = "recv"
    /\ \E d \in Datagrams :
          /\ msg' = d
          /\ IF Parsed[d].stage = "ok"
             THEN /\ received_token' = TRUE
                  /\ multicast_token' = Parsed[d].token
             ELSE UNCHANGED <<received_token, multicast_token>>
    /\ lastrecv' = "datagram"
    /\ lpc' = "loop"
    /\ UNCHANGED cancel_thread
    /\ UNCHANGED runVars
    /\ UNCHANGED pskVars

\* line 212 raises socket.timeout after 2 s (line 209); line 222 swallows it
ListenerTimeout ==
    /\ lpc = "recv"
    /\ lastrecv' = "timeout"
    /\ lpc' = "loop"
    /\ UNCHANGED <<multicast_token, cancel_thread, received_token, msg>>
    /\ UNCHANGED runVars
    /\ UNCHANGED pskVars

-----------------------------------------------------------------------------
(* get_new_token(), lines 184-201, on the main thread *)

\* line 242: is a token of 14 characters at hand
NeedsNewToken(tok) == IsNone(tok) \/ Len(tok.v) # 14

NeedToken ==
    /\ pc = "need_token"
    /\ pc' = IF NeedsNewToken(token) THEN "gnt_start" ELSE "check_token"
    /\ UNCHANGED <<args, uuid, token, region, connection, attempts, response,
                   responses, report, written, exitcode>>
    /\ UNCHANGED listenerVars
    /\ UNCHANGED pskVars

\* lines 192-193: the listener thread starts
GntStart ==
    /\ pc = "gnt_start"
    /\ lpc' = "loop"
    /\ pc' = "gnt_poll"
    /\ UNCHANGED <<args, uuid, token, region, connection, attempts, response,
                   responses, report, written, exitcode>>
    /\ UNCHANGED <<multicast_token, cancel_thread, received_token, msg,
                   lastrecv>>
    /\ UNCHANGED pskVars

\* lines 194-196: the poll loop ends once multicast_token is not None
GntPoll ==
    /\ pc = "gnt_poll"
    /\ ~IsNone(multicast_token)
    /\ pc' = "gnt_return"
    /\ UNCHANGED <<args, uuid, token, region, connection, attempts, response,
                   responses, report, written, exitcode>>
    /\ UNCHANGED listenerVars
    /\ UNCHANGED pskVars

\* lines 197-199: an interrupt anywhere inside the try block
GntInterrupt ==
    /\ pc \in {"gnt_start", "gnt_poll"}
    /\ cancel_thread' = TRUE
    /\ pc' = "gnt_return"
    /\ UNCHANGED <<args, uuid, token, region, connection, attempts, response,
                   responses, report, written, exitcode>>
    /\ UNCHANGED <<multicast_token, lpc, received_token, msg, lastrecv>>
    /\ UNCHANGED pskVars

\* line 201, assigned to token at line 243
GntReturn ==
    /\ pc = "gnt_return"
    /\ token' = multicast_token
    /\ pc' = "check_token"
    /\ UNCHANGED <<args, uuid, region, connection, attempts, response,
                   responses, report, written, exitcode>>
    /\ UNCHANGED listenerVars
    /\ UNCHANGED pskVars

\* lines 245-246
CheckToken ==
    /\ pc = "check_token"
    /\ IF IsNone(token)
       THEN print_and_exit("[!] Error receiving new token.")
       ELSE /\ pc' = "region"
            /\ UNCHANGED <<report, exitcode>>
    /\ UNCHANGED <<args, uuid, token, region, connection, attempts, response,
                   responses, written>>
    /\ UNCHANGED listenerVars
    /\ UNCHANGED pskVars

-----------------------------------------------------------------------------
(* run(): region and protocol token, lines 248-268 *)

RegionTable(prefix) ==
    IF prefix = <<"A", "Z">> THEN <<"u", "s">>
    ELSE IF prefix = <<"E", "U">> THEN <<"e", "u">>
    ELSE prefix   \* line 255 compares (region == "cn") and assigns nothing

\* KnownPrefix with the else branch of lines 256-258 missing
KnownPrefixAny(prefix) == TRUE

KnownPrefix(prefix) ==
    prefix \in {<<"A", "Z">>, <<"E", "U">>, <<"A", "Y">>}

\* lines 260-261
ProtocolToken(tok) == Take(Drop(tok, 2), 8)

\* TuyaAPIConnection.__init__, lines 39-42
TuyaAPIConnection(u, k, p) ==
    [t |-> "TuyaAPIConnection",
     psk |-> IF ~IsNone(p) /\ Len(p.v) > 0 THEN Encode(p.v) ELSE <<>>,
     authkey |-> Encode(k.v),
     uuid |-> Encode(u.v)]

DecodeRegion ==
    /\ pc = "region"
    /\ IF ~IsStr(token)
       THEN /\ Uncaught("TypeError")
            /\ UNCHANGED <<region, token, connection>>
       ELSE IF ~KnownPrefix(Take(token.v, 2))
       THEN /\ region' = Str(Take(token.v, 2))
            /\ report' = [kind |-> "fatal",
                          text |-> "[!] Unable to determine region from token provided"]
            /\ exitcode' = 4
            /\ pc' = "done"
            /\ UNCHANGED <<token, connection>>
       ELSE /\ region' = Str(RegionTable(Take(token.v, 2)))
            /\ token' = Str(ProtocolToken(token.v))
            /\ IF Len(ProtocolToken(token.v)) # 8
               THEN /\ Uncaught("AssertionError")
                    /\ UNCHANGED connection
               ELSE /\ connection' = TuyaAPIConnection(uuid, args.auth_key, None)
                    /\ pc' = "attemptA"
                    /\ UNCHANGED <<report, exitcode>>
    /\ UNCHANGED <<args, uuid, attempts, response, responses, written>>
    /\ UNCHANGED listenerVars
    /\ UNCHANGED pskVars

-----------------------------------------------------------------------------
(* The request of one attempt: lines 158-182 and 44-69 *)

\* line 265
Url(reg) == <<"h", "t", "t", "p", ":", "/", "/", "a", ".", "t", "u", "y", "a">>
            \o reg \o <<".", "c", "o", "m", "/", "d", ".", "j", "s", "o", "n">>

\* urlparse(url), lines 45-48: the scheme ends at the first ':', the host is
\* what lies between "//" and the next '/', in lower case
FirstIndex(s, c, from) ==
    IF \E i \in from..Len(s) : s[i] = c
    THEN CHOOSE i \in from..Len(s) : s[i] = c /\ \A j \in from..(i - 1) : s[j] # c
    ELSE Len(s) + 1
Lower(c) == CASE c = "A" -> "a" [] c = "E" -> "e" [] c = "U" -> "u"
              [] c = "Y" -> "y" [] c = "Z" -> "z" [] OTHER -> c
Scheme(url) == SubSeq(url, 1, FirstIndex(url, ":", 1) - 1)
Hostname(url) ==
    LET start == FirstIndex(url, ":", 1) + 3
        raw == SubSeq(url, start, FirstIndex(url, "/", start) - 1)
    IN [i \in 1..Len(raw) |-> Lower(raw[i])]
PskWrapped(url) == Scheme(url) = <<"h", "t", "t", "p", "s">>

\* lines 158-167 (the timestamp is left out)
build_params(u) == [a |-> "tuya.device.active", uuid |-> u, v |-> "4.4"]

\* build_data with the flag dropped: every attempt says isFK false
build_data_flag_dropped(tok, key, is_fk) ==
    [token |-> tok,
     productKey |-> key,
     softVer |-> args.software_version,
     baselineVer |-> args.baseline_version,
     cadVer |-> args.cad_version,
     options |-> "{\"isFK\":false}"]

\* lines 169-182 (the timestamp and the two defaulted versions are left out)
build_data(tok, key, is_fk) ==
    [token |-> tok,
     productKey |-> key,
     softVer |-> args.software_version,
     baselineVer |-> args.baseline_version,
     cadVer |-> args.cad_version,
     options |-> IF is_fk THEN "{\"isFK\":true}" ELSE "{\"isFK\":false}"]

\* what request() puts on the wire, lines 45-56
Wire(data) ==
    [host |-> Hostname(Url(region.v)),
     psk_wrapped |-> PskWrapped(Url(region.v)),
     params |-> build_params(uuid),
     data |-> data]

\* what may go wrong inside the try block of lines 55-64: a socket error on
\* send or recv, no header/body separator (line 58), bad UTF-8 (58, 62), bad
\* JSON (59, 63), no "result" member (59), bad base64 (60), bad padding (61)
TransportFailures ==
    {"OSError", "IndexError", "UnicodeDecodeError", "JSONDecodeError",
     "KeyError", "binascii.Error", "ValueError"}

\* lines 65-69
RequestFailed(exception) ==
    /\ report' = [kind |-> "fatal",
                  text |-> "[!] Unable to get a response from Tuya API, or response was malformed.",
                  error |-> exception]
    /\ exitcode' = 3
    /\ pc' = "done"

\* lines 54-56: the connection is made outside the try block, so a failure to
\* connect is an uncaught exception; inside it the send fails or the request
\* is sent
Send(data, waitpc) ==
    \/ /\ Uncaught("OSError")
       /\ UNCHANGED attempts
    \/ /\ RequestFailed("OSError")
       /\ UNCHANGED attempts
    \/ /\ attempts' = Append(attempts, Wire(data))
       /\ pc' = waitpc
       /\ UNCHANGED <<report, exitcode>>

\* Receive with a failure taken for the answer NOT_EXISTS
ReceiveFailureAsCode(nextpc) ==
    \/ \E r \in Responses :
          /\ response' = r
          /\ responses' = Append(responses, r)
          /\ pc' = nextpc
          /\ UNCHANGED <<report, exitcode>>
    \/ /\ response' = Fail("NOT_EXISTS")
       /\ pc' = nextpc
       /\ UNCHANGED <<responses, report, exitcode>>

\* lines 57-69: a response is decoded, or any failure on the way ends the
\* process with status 3
Receive(nextpc) ==
    \/ \E r \in Responses :
          /\ response' = r
          /\ responses' = Append(responses, r)
          /\ pc' = nextpc
          /\ UNCHANGED <<report, exitcode>>
    \/ /\ \E e \in TransportFailures : RequestFailed(e)
       /\ UNCHANGED <<response, responses>>

-----------------------------------------------------------------------------
(* run(): the attempts, lines 270-286 *)

\* lines 272-274
AttemptA ==
    /\ pc = "attemptA"
    /\ IF ~IsNone(args.product_key)
       THEN Send(build_data(token, args.product_key, FALSE), "waitA")
       ELSE /\ pc' = "attemptC"
            /\ UNCHANGED <<attempts, report, exitcode>>
    /\ UNCHANGED <<args, uuid, token, region, connection, response, responses,
                   written>>
    /\ UNCHANGED listenerVars
    /\ UNCHANGED pskVars

RecvA ==
    /\ pc = "waitA"
    /\ Receive("attemptB")
    /\ UNCHANGED <<args, uuid, token, region, connection, attempts, written>>
    /\ UNCHANGED listenerVars
    /\ UNCHANGED pskVars

\* lines 276-278
AttemptB ==
    /\ pc = "attemptB"
    /\ IF LookupFails(response)
       THEN /\ Uncaught("KeyError")
            /\ UNCHANGED attempts
       ELSE IF Retryable(response)
       THEN Send(build_data(token, args.product_key, TRUE), "waitB")
       ELSE /\ pc' = "attemptC"
            /\ UNCHANGED <<attempts, report, exitcode>>
    /\ UNCHANGED <<args, uuid, token, region, connection, response, responses,
                   written>>
    /\ UNCHANGED listenerVars
    /\ UNCHANGED pskVars

RecvB ==
    /\ pc = "waitB"
    /\ Receive("attemptC")
    /\ UNCHANGED <<args, uuid, token, region, connection, attempts, written>>
    /\ UNCHANGED listenerVars
    /\ UNCHANGED pskVars

\* FirmwarePath without the test of the last response
FirmwarePathAnyResponse(resp, fk) == ~IsNone(fk)

\* line 280: the test that guards the firmware-key attempts
FirmwarePath(resp, fk) ==
    /\ \/ IsNone(resp)
       \/ (~resp.success /\ resp.errorCode # "EXPIRE")
    /\ ~IsNone(fk)

\* lines 280-282
AttemptC ==
    /\ pc = "attemptC"
    /\ IF ~IsNone(response) /\ LookupFails(response)
       THEN /\ Uncaught("KeyError")
            /\ UNCHANGED attempts
       ELSE IF FirmwarePath(response, args.firmware_key)
       THEN Send(build_data(token, args.firmware_key, TRUE), "waitC")
       ELSE /\ pc' = "report"
            /\ UNCHANGED <<attempts, report, exitcode>>
    /\ UNCHANGED <<args, uuid, token, region, connection, response, responses,
                   written>>
    /\ UNCHANGED listenerVars
    /\ UNCHANGED pskVars

RecvC ==
    /\ pc = "waitC"
    /\ Receive("attemptD")
    /\ UNCHANGED <<args, uuid, token, region, connection, attempts, written>>
    /\ UNCHANGED listenerVars
    /\ UNCHANGED pskVars

\* lines 284-286
AttemptD ==
    /\ pc = "attemptD"
    /\ IF LookupFails(response)
       THEN /\ Uncaught("KeyError")
            /\ UNCHANGED attempts
       ELSE IF Retryable(response)
       THEN Send(build_data(token, args.firmware_key, FALSE), "waitD")
       ELSE /\ pc' = "report"
            /\ UNCHANGED <<attempts, report, exitcode>>
    /\ UNCHANGED <<args, uuid, token, region, connection, response, responses,
                   written>>
    /\ UNCHANGED listenerVars
    /\ UNCHANGED pskVars

RecvD ==
    /\ pc = "waitD"
    /\ Receive("report")
    /\ UNCHANGED <<args, uuid, token, region, connection, attempts, written>>
    /\ UNCHANGED listenerVars
    /\ UNCHANGED pskVars

-----------------------------------------------------------------------------
(* run(): the final report, lines 288-298 *)

\* lines 291-294: the two files of a successful run
SchemaFiles(prefix, result) ==
    { [prefix |-> prefix, suffix |-> "_schema_id.txt", text |-> result.schemaId],
      [prefix |-> prefix, suffix |-> "_schema.txt", text |-> result.schema] }

\* Printed with a fixed message for every failure
PrintedGeneric(resp) ==
    IF resp.success
    THEN [kind |-> "schema", schemaId |-> resp.result.schemaId,
          schema |-> resp.result.schema]
    ELSE IF resp.errorCode = "EXPIRE"
    THEN [kind |-> "expired",
          text |-> "[!] The token provided has either expired, or you are connected to the wrong region"]
    ELSE [kind |-> "response", response |-> Fail("ERROR")]

\* what lines 289-290, 296 and 298 print for a response
Printed(resp) ==
    IF resp.success
    THEN [kind |-> "schema", schemaId |-> resp.result.schemaId,
          schema |-> resp.result.schema]
    ELSE IF resp.errorCode = "EXPIRE"
    THEN [kind |-> "expired",
          text |-> "[!] The token provided has either expired, or you are connected to the wrong region"]
    ELSE [kind |-> "response", response |-> resp]

Report ==
    /\ pc = "report"
    /\ IF IsNone(response)
       THEN /\ Uncaught("TypeError")
            /\ UNCHANGED written
       ELSE IF response.success
       THEN /\ report' = Printed(response)
            /\ pc' = "done"
            /\ IF IsNone(args.output_file_prefix)
               THEN \* line 291: None + str raises TypeError after the prints
                    /\ exitcode' = 1
                    /\ UNCHANGED written
               ELSE /\ exitcode' = 0
                    /\ written' = SchemaFiles(args.output_file_prefix.v,
                                              response.result)
       ELSE IF LookupFails(response)
       THEN /\ Uncaught("KeyError")
            /\ UNCHANGED written
       ELSE /\ report' = Printed(response)
            /\ exitcode' = 0
            /\ pc' = "done"
            /\ UNCHANGED written
    /\ UNCHANGED <<args, uuid, token, region, connection, attempts, response,
                   responses>>
    /\ UNCHANGED listenerVars
    /\ UNCHANGED pskVars

-----------------------------------------------------------------------------
(* The calls of run() the model starts from *)

Calls ==
    [uuid : Uuids, auth_key : AuthKeys, product_key : ProductKeys,
     firmware_key : FirmwareKeys, software_version : SoftVersions,
     cad_version : CadVersions, baseline_version : BaselineVersions,
     output_file_prefix : Prefixes, token : Tokens]

NoReport == [kind |-> "none"]

Init ==
    /\ args \in Calls
    /\ pc = "validate"
    /\ uuid = args.uuid
    /\ token = args.token
    /\ region = None
    /\ connection = None
    /\ attempts = <<>>
    /\ response = None
    /\ responses = <<>>
    /\ report = NoReport
    /\ written = {}
    /\ exitcode = -1
    /\ multicast_token = None
    /\ cancel_thread = FALSE
    /\ lpc = "idle"
    /\ received_token = FALSE
    /\ msg = <<>>
    /\ lastrecv = "none"
    /\ pskret = None
    /\ pskhint = None
    /\ pskcalls = 0

Next ==
    \/ Validate
    \/ NeedToken
    \/ GntStart
    \/ GntPoll
    \/ GntInterrupt
    \/ GntReturn
    \/ CheckToken
    \/ DecodeRegion
    \/ AttemptA
    \/ RecvA
    \/ AttemptB
    \/ RecvB
    \/ AttemptC
    \/ RecvC
    \/ AttemptD
    \/ RecvD
    \/ Report
    \/ ListenerLoop
    \/ ListenerDatagram
    \/ ListenerTimeout

Spec == Init /\ [][Next]_vars

-----------------------------------------------------------------------------
(* The PSK handshake callback, lines 119-140.                              *)
(*                                                                         *)
(* The digests and the cipher are library code; the model puts small       *)
(* deterministic functions of the same shape in their place: md5 yields 16 *)
(* bytes, sha256 yields 32, and AES-CBC without padding yields as many     *)
(* bytes as it is given, each depending on key, iv and the text so far.    *)

RECURSIVE ByteSum(_)
ByteSum(b) == IF Len(b) = 0 THEN 0 ELSE (b[1] + ByteSum(Tail(b))) % 256

Digest(b, n) == [i \in 1..n |-> (ByteSum(b) * i + Len(b) + i * i) % 256]
md5(b) == Digest(b, 16)
sha256(b) == Digest(b, 32)

\* AES.new(key, AES.MODE_CBC, iv).encrypt(text) on whole 16-byte blocks
RECURSIVE CbcEncrypt(_, _, _)
CbcEncrypt(key, iv, text) ==
    IF Len(text) = 0 THEN <<>>
    ELSE LET block == [i \in 1..16 |-> (text[i] + iv[i] + key[i] * i) % 256]
         IN block \o CbcEncrypt(key, block, SubSeq(text, 17, Len(text)))

\* bytes.replace(b'\x00', b'?'), lines 129 and 140
ReplaceNul(b) == [i \in 1..Len(b) |-> IF b[i] = 0 THEN 63 ELSE b[i]]

\* hint[-16:], line 131
Last16(hint) == SubSeq(hint, IF Len(hint) > 16 THEN Len(hint) - 15 ELSE 1,
                       Len(hint))

\* lines 125-129: init_id of the v1 derivation
InitIdV1(conn, rand_data) ==
    ReplaceNul(<<1>> \o rand_data \o md5(conn.uuid) \o <<95>> \o md5(conn.authkey))

\* lines 130-133: the secret the v1 derivation stores in self.psk
SecretV1(conn, hint, rand_data) ==
    LET init_id == InitIdV1(conn, rand_data)
    IN CbcEncrypt(md5(Last16(hint)), md5(Tail(init_id)), SubSeq(init_id, 2, 33))

\* lines 124-134: the connection afterwards, and the pair returned
PskIdV1Conn(conn, hint, rand_data) ==
    [conn EXCEPT !.psk = SecretV1(conn, hint, rand_data)]
\* PskIdV1Ret with the version byte taken off the identity
PskIdV1RetStripped(conn, hint, rand_data) ==
    [secret |-> SecretV1(conn, hint, rand_data),
     identity |-> Tail(InitIdV1(conn, rand_data))]
PskIdV1Ret(conn, hint, rand_data) ==
    [secret |-> SecretV1(conn, hint, rand_data),
     identity |-> InitIdV1(conn, rand_data)]

\* lines 136-140: the pair returned (self.psk is not assigned)
PskIdV2Ret(conn, hint, rand_data) ==
    [secret |-> conn.psk,
     identity |-> ReplaceNul(<<2>> \o rand_data \o sha256(conn.uuid))]

\* TakesV1 testing for a secret of the v1 length instead of any secret
TakesV1UnlessDerived(conn) == Len(conn.psk) # 32

\* line 120: not self.psk
TakesV1(conn) == Len(conn.psk) = 0

\* the hints the server may send and the draws of random.randbytes(0x10)
Hints == {<<>>, Rep(7, 8), Rep(9, 16), Rep(9, 16) \o <<1, 2, 3, 4>>,
          <<1, 2, 3, 4>> \o Rep(9, 16)}
RandDraws == {Rep(0, 16), Rep(17, 16), <<0, 255>> \o Rep(33, 14)}

SuppliedPsk == <<"k", "e", "y", "1">>
MaxHandshakes == 3

\* lines 119-122: one handshake callback
PskAndPskid ==
    /\ pc = "handshake"
    /\ pskcalls < MaxHandshakes
    /\ \E hint \in Hints, rand_data \in RandDraws :
          /\ pskhint' = hint
          /\ IF TakesV1(connection)
             THEN /\ connection' = PskIdV1Conn(connection, hint, rand_data)
                  /\ pskret' = PskIdV1Ret(connection, hint, rand_data)
             ELSE /\ connection' = connection
                  /\ pskret' = PskIdV2Ret(connection, hint, rand_data)
    /\ pskcalls' = pskcalls + 1
    /\ UNCHANGED <<args, pc, uuid, token, region, attempts, response,
                   responses, report, written, exitcode>>
    /\ UNCHANGED listenerVars

\* a connection as any caller may construct it, then its handshakes
InitPsk ==
    /\ args \in [uuid : {Str(Uuid16), None}, auth_key : {Str(Auth32)},
                 product_key : {Str(Key16)}, firmware_key : {None, Str(FwKey)},
                 software_version : {Str(<<"1", ".", "0", ".", "5">>)},
                 cad_version : {Str(<<"1", ".", "0", ".", "2">>)},
                 baseline_version : {Str(<<"4", "0", ".", "0", "0">>)},
                 output_file_prefix : {None}, token : {None}]
    /\ pc = "handshake"
    /\ uuid = ValidatedUuid(args)
    /\ token = None
    /\ region = None
    /\ \E p \in {None, Str(<<>>), Str(SuppliedPsk)} :
          connection = TuyaAPIConnection(uuid, args.auth_key, p)
    /\ attempts = <<>>
    /\ response = None
    /\ responses = <<>>
    /\ report = NoReport
    /\ written = {}
    /\ exitcode = -1
    /\ multicast_token = None
    /\ cancel_thread = FALSE
    /\ lpc = "idle"
    /\ received_token = FALSE
    /\ msg = <<>>
    /\ lastrecv = "none"
    /\ pskret = None
    /\ pskhint = None
    /\ pskcalls = 0

NextPsk == PskAndPskid

SpecPsk == InitPsk /\ [][NextPsk]_vars

-----------------------------------------------------------------------------
(* Properties of the orchestrator *)

IsFK(attempt) == attempt.data.options = "{\"isFK\":true}"
NotFK(attempt) == attempt.data.options = "{\"isFK\":false}"
KeyOf(attempt) == attempt.data.productKey

\* the token run() decodes: the caller's when it has 14 characters, else the
\* one get_new_token() returned
AcceptedToken == IF NeedsNewToken(args.token) THEN multicast_token ELSE args.token

C1_Scenario ==
    /\ ~Empty(args.product_key)
    /\ Empty(args.firmware_key)
    /\ Len(responses) >= 2
    /\ responses[1] = Fail("NOT_EXISTS")
    /\ responses[2] = SchemaOk

\* C1: with a product key and no firmware key, when the first attempt
\* (product key, isFK false) is answered NOT_EXISTS and the second (same key,
\* isFK true) is answered with success, exactly two attempts were made, both
\* carry the product key, no further response is awaited, and the run ends
\* reporting the schemaId and schema of that success payload.
C1_FallbackThenSuccess ==
    C1_Scenario =>
        /\ Len(attempts) = 2
        /\ Len(responses) = 2
        /\ KeyOf(attempts[1]) = args.product_key /\ NotFK(attempts[1])
        /\ KeyOf(attempts[2]) = args.product_key /\ IsFK(attempts[2])
        /\ response = SchemaOk
        /\ pc \in {"attemptC", "report", "done"}
        /\ pc = "done" =>
              report = [kind |-> "schema", schemaId |-> SchemaOk.result.schemaId,
                        schema |-> SchemaOk.result.schema]

C1_Witness ==
    /\ C1_Scenario
    /\ pc = "done"
    /\ report.kind = "schema"
    /\ Len(attempts) = 2

C2_Scenario ==
    /\ ~Empty(args.product_key)
    /\ Empty(args.firmware_key)
    /\ Len(responses) >= 1
    /\ responses[1] = Fail("EXPIRE")

\* C2: with a product key and no firmware key, when the first attempt is
\* answered EXPIRE, that attempt stays the only one (no flag-flipped retry, no
\* firmware-key attempt), EXPIRE stays the last response, and the run ends
\* normally on the EXPIRE branch of its report.
C2_ExpireIsTerminal ==
    C2_Scenario =>
        /\ Len(attempts) = 1
        /\ Len(responses) = 1
        /\ response = Fail("EXPIRE")
        /\ pc \in {"attemptB", "attemptC", "report", "done"}
        /\ pc = "done" => (report.kind = "expired" /\ exitcode = 0)

C2_Witness ==
    /\ C2_Scenario
    /\ pc = "done"
    /\ report.kind = "expired"
    /\ Len(attempts) = 1

\* the host the region table of the specification gives for a token prefix
HostUs == <<"a", ".", "t", "u", "y", "a", "u", "s", ".", "c", "o", "m">>
HostEu == <<"a", ".", "t", "u", "y", "a", "e", "u", ".", "c", "o", "m">>
HostCn == <<"a", ".", "t", "u", "y", "a", "c", "n", ".", "c", "o", "m">>
RegionalHost(prefix) ==
    IF prefix = <<"A", "Z">> THEN HostUs
    ELSE IF prefix = <<"E", "U">> THEN HostEu
    ELSE HostCn

\* C3: every attempt goes to the host of the accepted token's region:
\* AZ -> a.tuyaus.com, EU -> a.tuyaeu.com, AY -> a.tuyacn.com.
C3_RegionalEndpoint ==
    \A i \in 1..Len(attempts) :
        attempts[i].host = RegionalHost(Take(AcceptedToken.v, 2))


C4_BadToken(tok) ==
    /\ IsStr(tok)
    /\ \/ ~(Take(tok.v, 2) \in {<<"A", "Z">>, <<"E", "U">>, <<"A", "Y">>})
       \/ Len(tok.v) - 2 < 8

\* C4: a token whose prefix is not AZ, EU or AY, or with fewer than 8
\* characters after the prefix, ends the run with a fatal status and no
\* attempt, whether the caller supplied it or the listener published it; every
\* attempt sent carries a protocol token of exactly 8 characters, the 8 that
\* follow the prefix of the accepted token.
C4_TokenErrorsBeforeAttempts ==
    /\ C4_BadToken(AcceptedToken) =>
          /\ attempts = <<>>
          /\ pc = "done" => exitcode \in {1, 2, 4}
          /\ (pc = "done" /\ ValidationError(args) = "" /\ token = AcceptedToken)
                => exitcode = 4
          /\ (pc = "done" /\ ValidationError(args) = "" /\ IsStr(token)
                /\ token # AcceptedToken) => exitcode = 1
    /\ \A i \in 1..Len(attempts) :
          /\ IsStr(attempts[i].data.token)
          /\ Len(attempts[i].data.token.v) = 8
          /\ attempts[i].data.token.v = SubSeq(AcceptedToken.v, 3, 10)

C4_Witness ==
    /\ pc = "done"
    /\ multicast_token = Str(ListenerShort)
    /\ token = Str(<<"1", "2", "3", "4">>)
    /\ report = [kind |-> "traceback", text |-> "AssertionError"]
    /\ attempts = <<>>

C5_Len(x) == IF IsNone(x) THEN -1 ELSE Len(x.v)
C5_Invalid(a) ==
    \/ C5_Len(a.uuid) # 16 /\ C5_Len(a.product_key) # 16
    \/ C5_Len(a.auth_key) # 32
    \/ C5_Len(a.product_key) <= 0 /\ C5_Len(a.firmware_key) <= 0
    \/ C5_Len(a.software_version) < 5
    \/ C5_Len(a.cad_version) < 5
    \/ C5_Len(a.baseline_version) < 5

\* C5: when uuid has not 16 characters and the product key has not either, or
\* authKey has not 32 characters, or product key and firmware key are both
\* absent or empty, or the software, cad or baseline version has fewer than 5
\* characters, the run ends with the fatal status 2 straight from validation:
\* the listener is never started, no token is published and no attempt is
\* sent.  When uuid has not 16 characters and the product key has, every
\* attempt and the connection use the product key as uuid.
C5_ValidationFirst ==
    /\ C5_Invalid(args) =>
          /\ attempts = <<>>
          /\ lpc = "idle"
          /\ IsNone(multicast_token)
          /\ ~cancel_thread
          /\ pc \in {"validate", "done"}
          /\ pc = "done" => (exitcode = 2 /\ report.kind = "fatal")
    /\ (~C5_Invalid(args) /\ C5_Len(args.uuid) # 16 /\ pc # "validate") =>
          /\ uuid = args.product_key
          /\ \A i \in 1..Len(attempts) : attempts[i].params.uuid = args.product_key
          /\ ~IsNone(connection) => connection.uuid = Encode(args.product_key.v)
    /\ (~C5_Invalid(args) /\ C5_Len(args.uuid) = 16) =>
          /\ uuid = args.uuid
          /\ \A i \in 1..Len(attempts) : attempts[i].params.uuid = args.uuid

C5_Witness ==
    /\ pc = "done"
    /\ exitcode = 2
    /\ report = [kind |-> "fatal", text |-> "cadVer"]
    /\ NeedsNewToken(args.token)
    /\ C5_Len(args.uuid) # 16
    /\ C5_Len(args.product_key) = 16

\* the report step ran: the run ended by printing its result
C6_Reported == pc = "done" /\ report.kind \in {"schema", "expired", "response"}

\* C6 as stated: a run whose last response is a failure prints that response
\* itself, whatever its error code, and a run whose last response is a success
\* prints its schemaId and schema.
C6_Original ==
    C6_Reported =>
        IF response.success
        THEN report = [kind |-> "schema", schemaId |-> response.result.schemaId,
                       schema |-> response.result.schema]
        ELSE report = [kind |-> "response", response |-> response]

\* C6, amended: a run whose last response is a failure with an error code other
\* than EXPIRE prints that response itself; on EXPIRE it prints the fixed
\* expired-token message instead; a run whose last response is a success prints
\* its schemaId and schema.  The response printed from is the last one received.
C6_ReportOfLastResponse ==
    /\ exitcode = 0 => C6_Reported
    /\ C6_Reported =>
          /\ response = responses[Len(responses)]
          /\ IF response.success
             THEN report = [kind |-> "schema",
                            schemaId |-> response.result.schemaId,
                            schema |-> response.result.schema]
             ELSE IF response.errorCode = "EXPIRE"
             THEN report.kind = "expired"
             ELSE report = [kind |-> "response", response |-> response]

C6_Witness ==
    /\ C6_Reported
    /\ Len(responses) = 2
    /\ response = Fail("PERMISSION_DENIED")
    /\ report = [kind |-> "response", response |-> Fail("PERMISSION_DENIED")]

-----------------------------------------------------------------------------
(* Properties of the token listener *)

\* the 26 bytes of {"token":"AZ12345678ABCD"}
C7_Body ==
    Encode(<<"{", "\"", "t", "o", "k", "e", "n", "\"", ":", "\"">> \o TokenAZ
           \o <<"\"", "}">>)
\* the listener has just handled a datagram with this length field that
\* carries C7_Body from byte 16 on
C7_Handled(lengthBytes) ==
    /\ lastrecv = "datagram"
    /\ Len(msg) >= 42
    /\ SubSeq(msg, 13, 16) = lengthBytes
    /\ SubSeq(msg, 17, 42) = C7_Body
C7_Min(a, b) == IF a < b THEN a ELSE b

\* for each datagram of 16 bytes or more: whether its bytes 16 up to L + 8 are
\* the JSON text of an object with a token member, and that member
C7_Expected ==
    [d \in {x \in Datagrams : Len(x) >= 16} |->
        LET L == d[13] * 16777216 + d[14] * 65536 + d[15] * 256 + d[16]
            body == SubSeq(d, 17, C7_Min(L + 8, Len(d)))
            good == /\ \A i \in 1..Len(body) : body[i] < 128
                    /\ IsObject(Decode(body))
                    /\ HasToken(JsonLoads(Decode(body)))
        IN [good |-> good,
            token |-> IF good THEN TokenOf(JsonLoads(Decode(body))) ELSE None]]

\* C7 as stated: a datagram with length field 20 that carries the body
\* {"token":"AZ12345678ABCD"} from byte 16 on makes the listener publish
\* AZ12345678ABCD and stop.
C7_Original ==
    C7_Handled(<<0, 0, 0, 20>>) =>
        /\ multicast_token = Str(TokenAZ)
        /\ received_token
        /\ lpc \in {"loop", "exit"}

\* C7, amended: the payload of a datagram is its bytes 16 up to (not including)
\* L + 8, L the big-endian number in bytes 12..15: the listener accepts the
\* datagram exactly when those bytes are the JSON text of an object with a
\* token member, and then publishes that member; a datagram with length field
\* 34 (the 26 bytes of the body plus 8) that carries {"token":"AZ12345678ABCD"}
\* from byte 16 on makes it publish AZ12345678ABCD and stop.
C7_FrameDecoding ==
    /\ (lastrecv = "datagram" /\ Len(msg) >= 16) =>
          /\ received_token <=> C7_Expected[msg].good
          /\ C7_Expected[msg].good => multicast_token = C7_Expected[msg].token
    /\ C7_Handled(<<0, 0, 0, 34>>) =>
          /\ multicast_token = Str(TokenAZ)
          /\ received_token
          /\ lpc \in {"loop", "exit"}
    /\ received_token => lpc \in {"loop", "exit"}

C7_Witness ==
    /\ C7_Handled(<<0, 0, 0, 34>>)
    /\ multicast_token = Str(TokenAZ)
    /\ lpc = "exit"

\* at which of lines 213-216 each datagram that is not accepted fails
C8_Stages == {Parsed[d].stage : d \in BadDatagrams}

\* C8: a datagram that fails at any stage of decoding (too short for the
\* length field, a length that cuts or overruns the JSON text, invalid UTF-8,
\* invalid JSON, no token member) leaves multicast_token unset and the
\* listener in its loop; the loop is left only after a datagram was accepted or
\* after cancel_thread was set.
C8_BadDatagramsDiscarded ==
    /\ C8_Stages = {"struct.error", "UnicodeDecodeError", "JSONDecodeError",
                    "TypeError", "KeyError"}
    /\ (lastrecv = "datagram" /\ msg \in BadDatagrams) =>
          /\ IsNone(multicast_token)
          /\ ~received_token
          /\ lpc \in {"loop", "recv", "exit"}
          /\ lpc = "exit" => cancel_thread
    /\ lpc = "exit" => (received_token \/ cancel_thread)
    /\ received_token => (lastrecv = "datagram" /\ msg \in GoodDatagrams)
    /\ ~IsNone(multicast_token) => received_token

C8_Witness ==
    /\ lastrecv = "datagram"
    /\ msg = DgNoField
    /\ lpc = "recv"
    /\ ~cancel_thread
    /\ IsNone(multicast_token)

-----------------------------------------------------------------------------
(* Properties of the PSK handshake callback *)

\* the derivation a returned identity comes from: its leading version byte
C9_Version(ret) == ret.identity[1]

C9_Callback == pskcalls' = pskcalls + 1

\* C9: a handshake callback takes the v1 derivation exactly when the
\* connection holds no secret and the v2 derivation exactly when it holds one;
\* v2 leaves the held secret as it is and returns it; after any callback a
\* secret is held, and a held secret never changes again.
C9_SecretDerivedOnce ==
    [][ /\ C9_Callback =>
              /\ C9_Version(pskret') = (IF connection.psk = <<>> THEN 1 ELSE 2)
              /\ connection.psk # <<>> =>
                    (connection'.psk = connection.psk /\ pskret'.secret = connection.psk)
              /\ connection'.psk # <<>>
              /\ pskret'.secret = connection'.psk
        /\ (~IsNone(connection) /\ connection.psk # <<>>) =>
              (~IsNone(connection') /\ connection'.psk = connection.psk)
      ]_vars

\* a secret derived by v1 (32 bytes; the supplied one has 4) was returned
\* again by two later v2 callbacks
C9_Witness ==
    /\ pskcalls = 3
    /\ C9_Version(pskret) = 2
    /\ Len(connection.psk) = 32
    /\ pskret.secret = connection.psk

-----------------------------------------------------------------------------
(* Properties of the orchestrator, continued *)

\* the run ended because a connection could not be made (line 54)
ConnectFailed == pc = "done" /\ report = [kind |-> "traceback", text |-> "OSError"]

C10_SentA ==
    /\ Len(attempts) >= 1
    /\ KeyOf(attempts[1]) = args.product_key
    /\ NotFK(attempts[1])
C10_SentB ==
    /\ C10_SentA
    /\ Len(attempts) >= 2
    /\ KeyOf(attempts[2]) = args.product_key
    /\ IsFK(attempts[2])
C10_Codes == {"FIRMWARE_NOT_MATCH", "APP_PRODUCT_UNSUPPORT", "NOT_EXISTS"}
C10_AnsweredToRetry ==
    /\ Len(responses) >= 1
    /\ ~responses[1].success
    /\ "errorCode" \in DOMAIN responses[1]
    /\ responses[1].errorCode \in C10_Codes
\* the run has gone past line 274 / past line 278 without failing to connect
C10_PastA == pc \notin {"validate", "need_token", "gnt_start", "gnt_poll",
                        "gnt_return", "check_token", "region", "attemptA"}
             /\ connection # None
             /\ ~(ConnectFailed /\ Len(attempts) = 0)
C10_PastB == C10_PastA /\ pc \notin {"waitA", "attemptB"}
             /\ ~(ConnectFailed /\ Len(attempts) = 1)

\* the rule for AttemptB, and what follows AttemptA otherwise: AttemptB (same
\* key, isFK true) is the second attempt exactly when AttemptA was sent and
\* answered with success false and an errorCode among FIRMWARE_NOT_MATCH,
\* APP_PRODUCT_UNSUPPORT, NOT_EXISTS; after any other answer (success, EXPIRE,
\* another code) the second attempt, if there is one, is a firmware-key attempt
C10_RuleB ==
    /\ C10_SentB => (C10_SentA /\ C10_AnsweredToRetry)
    /\ (C10_PastB /\ C10_SentA /\ C10_AnsweredToRetry) => C10_SentB
    /\ (C10_SentA /\ ~C10_AnsweredToRetry) =>
          \A i \in 2..Len(attempts) : KeyOf(attempts[i]) = args.firmware_key

\* C10: a run that reaches the attempts (and can connect) sends AttemptA
\* (product key, isFK false) exactly when a product key is configured, that is
\* present and not the empty string; AttemptB is sent if and only if AttemptA
\* was sent and answered with success false and one of the three codes.
C10_AttemptsAB ==
    /\ C10_SentA => ~Empty(args.product_key)
    /\ (C10_PastA /\ ~Empty(args.product_key)) => C10_SentA
    /\ C10_RuleB

\* What line 272 does: the same with "configured" read as "product_key is not
\* None", the empty string included.
ProductKeyAttemptsIfNotNone ==
    /\ C10_SentA => ~IsNone(args.product_key)
    /\ IsNone(args.product_key) =>
          \A i \in 1..Len(attempts) : KeyOf(attempts[i]) = args.firmware_key
    /\ (C10_PastA /\ ~IsNone(args.product_key)) => C10_SentA
    /\ C10_RuleB

\* the attempts of the run that carry the product key, and the responses that
\* answer the product-key and the firmware-key attempts
C11_ProductAttempts ==
    Cardinality({i \in 1..Len(attempts) : KeyOf(attempts[i]) = args.product_key})
C11_SentC ==
    \E i \in 1..Len(attempts) :
        KeyOf(attempts[i]) = args.firmware_key /\ IsFK(attempts[i])
C11_SentD ==
    \E i \in 1..Len(attempts) :
        KeyOf(attempts[i]) = args.firmware_key /\ NotFK(attempts[i])
C11_Answered(n) == n >= 1 /\ Len(responses) >= n
C11_FailedNotExpire(r) ==
    ~r.success /\ "errorCode" \in DOMAIN r /\ r.errorCode # "EXPIRE"
C11_FailedToRetry(r) ==
    /\ ~r.success
    /\ "errorCode" \in DOMAIN r
    /\ r.errorCode \in {"FIRMWARE_NOT_MATCH", "APP_PRODUCT_UNSUPPORT", "NOT_EXISTS"}
\* the product-key attempts are over and let the firmware path through
C11_ProductPathOpen ==
    \/ C11_ProductAttempts = 0
    \/ /\ C11_Answered(C11_ProductAttempts)
       /\ C11_FailedNotExpire(responses[C11_ProductAttempts])
\* the run went past line 282 / past line 286 (and could connect there)
C11_PastC ==
    \/ pc \in {"waitC", "attemptD", "waitD", "report"}
    \/ pc = "done" /\ report.kind \in {"schema", "expired", "response"}
C11_PastD ==
    \/ pc \in {"waitD", "report"}
    \/ pc = "done" /\ report.kind \in {"schema", "expired", "response"}

\* the rule of the firmware path for a given reading of "a firmware key is
\* configured"
C11_Rule(configured) ==
    /\ C11_SentC => (configured /\ C11_ProductPathOpen)
    /\ (C11_PastC /\ configured /\ C11_ProductPathOpen) => C11_SentC
    /\ C11_SentD =>
          /\ C11_SentC
          /\ C11_Answered(C11_ProductAttempts + 1)
          /\ C11_FailedToRetry(responses[C11_ProductAttempts + 1])
    /\ (C11_PastD /\ C11_SentC /\ C11_Answered(C11_ProductAttempts + 1)
          /\ C11_FailedToRetry(responses[C11_ProductAttempts + 1])) => C11_SentD
    /\ (C11_Answered(C11_ProductAttempts)
          /\ ~C11_FailedNotExpire(responses[C11_ProductAttempts])) =>
              (~C11_SentC /\ ~C11_SentD)

\* C11: AttemptC (firmware key, isFK true) is sent exactly when a firmware key
\* is configured, that is present and not the empty string, and either no
\* product-key attempt was made or the last product-key response is a failure
\* whose errorCode is not EXPIRE; AttemptD (firmware key, isFK false) is sent
\* exactly when AttemptC was sent and failed with one of the three codes; a
\* product-key success or EXPIRE suppresses the firmware path.
C11_AttemptsCD == C11_Rule(~Empty(args.firmware_key))

\* What line 280 does: the same with "configured" read as "firmware_key is not
\* None", the empty string included.
FirmwareKeyAttemptsIfNotNone == C11_Rule(~IsNone(args.firmware_key))

\* the place of an attempt in the order A, B, C, D, by its key and its flag
C12_Rank(attempt) ==
    IF KeyOf(attempt) = args.product_key
    THEN (IF NotFK(attempt) THEN 1 ELSE 2)
    ELSE IF KeyOf(attempt) = args.firmware_key
    THEN (IF IsFK(attempt) THEN 3 ELSE 4)
    ELSE 0

\* C12: attempts are issued one at a time and only in the order A, B, C, D,
\* each at most once (at most four per run); an attempt is started only after
\* the response of the one before it was received; no attempt is issued after
\* a response with success true.
C12_SequentialAttempts ==
    /\ Len(attempts) <= 4
    /\ \A i \in 1..Len(attempts) : C12_Rank(attempts[i]) \in 1..4
    /\ \A i, j \in 1..Len(attempts) :
          i < j => C12_Rank(attempts[i]) < C12_Rank(attempts[j])
    /\ Len(responses) <= Len(attempts)
    /\ Len(attempts) <= Len(responses) + 1
    /\ pc \in {"waitA", "waitB", "waitC", "waitD"} => Len(attempts) = Len(responses) + 1
    /\ pc \in {"attemptA", "attemptB", "attemptC", "attemptD", "report"} =>
          Len(attempts) = Len(responses)
    /\ (pc = "done" /\ Len(attempts) = Len(responses) + 1) => exitcode = 3
    /\ \A i \in 1..Len(responses) :
          responses[i].success => (Len(attempts) = i /\ Len(responses) = i)

C12_Witness ==
    /\ pc = "done"
    /\ Len(attempts) = 4
    /\ Len(responses) = 4
    /\ \A i \in 1..4 : C12_Rank(attempts[i]) = i
    /\ responses[4].success

\* the run ended inside request(): at the connect of line 54 (uncaught), or in
\* the try block of lines 55-64 (status 3)
C13_FailedInTry == pc = "done" /\ exitcode = 3
C13_Failed == ConnectFailed \/ C13_FailedInTry
\* a step in which a pending attempt ends without a response
C13_AttemptFails ==
    /\ pc \in {"waitA", "waitB", "waitC", "waitD"}
    /\ pc' # pc
    /\ responses' = responses
\* a step in which an attempt that is due cannot be sent
C13_SendFails ==
    /\ pc \in {"attemptA", "attemptB", "attemptC", "attemptD"}
    /\ pc' = "done"
    /\ report'.kind \in {"fatal", "traceback"}
    /\ ~(report'.kind = "traceback" /\ report'.text = "KeyError")

\* C13: a failure of the transport or of decoding the response, in any attempt,
\* ends the run at once: the process exits (status 3 from the try block of
\* request(), or by the uncaught error of a failed connect), the failure is not
\* recorded as a response, the last response is left as it was, and no attempt
\* follows it.
C13_TransportFailureIsFatal ==
    /\ [](C13_FailedInTry =>
            /\ report.kind = "fatal"
            /\ report.error \in TransportFailures
            /\ Len(attempts) \in {Len(responses), Len(responses) + 1}
            /\ (Len(responses) > 0 => response = responses[Len(responses)])
            /\ (Len(responses) = 0 => IsNone(response)))
    /\ [](ConnectFailed => (exitcode = 1 /\ Len(attempts) = Len(responses)))
    /\ [][ /\ (C13_AttemptFails \/ C13_SendFails) =>
                /\ pc' = "done"
                /\ exitcode' \in {1, 3}
                /\ attempts' = attempts
                /\ response' = response
                /\ responses' = responses
           /\ C13_Failed => (pc' = "done" /\ attempts' = attempts
                             /\ exitcode' = exitcode)
         ]_vars

\* the second attempt failed while its response was decoded
C13_Witness ==
    /\ C13_FailedInTry
    /\ report.error = "JSONDecodeError"
    /\ Len(attempts) = 2
    /\ responses = <<Fail("NOT_EXISTS")>>
    /\ response = Fail("NOT_EXISTS")

-----------------------------------------------------------------------------
(* Properties of the wait for a token *)

\* run() was called without a token of 14 characters and get_new_token() has
\* returned
C14_WaitOver ==
    /\ NeedsNewToken(args.token)
    /\ pc \notin {"validate", "need_token", "gnt_start", "gnt_poll"}
    /\ ValidationError(args) = ""

\* The part of C14 about the end of the wait: get_new_token() returns only
\* after the listener published a token or the wait was cancelled, and no
\* attempt is issued before that.
WaitEndsOnTokenOrCancel ==
    /\ C14_WaitOver => (~IsNone(multicast_token) \/ cancel_thread)
    /\ (NeedsNewToken(args.token) /\ attempts # <<>>) =>
          (C14_WaitOver /\ ~IsNone(multicast_token))
    /\ (NeedsNewToken(args.token) /\ ~C14_WaitOver) =>
          (attempts = <<>> /\ IsNone(connection))

\* C14: when run() starts without a 14-character token, the wait in
\* get_new_token() ends only when the listener has published a token or the
\* wait was cancelled, no attempt is issued before that, and a run whose wait
\* was cancelled issues no attempt, however the cancellation interleaves with
\* the listener thread.
C14_CancelledWaitNoAttempt ==
    /\ WaitEndsOnTokenOrCancel
    /\ cancel_thread => attempts = <<>>

-----------------------------------------------------------------------------
(* The run with a scheduler: the listener thread is not starved, and        *)
(* recvfrom returns within the 2 s of line 209, with a datagram or with     *)
(* socket.timeout.  Nothing is assumed about whether datagrams arrive, nor  *)
(* about the main thread.                                                   *)

\* calls that pass validation and bring no usable token
CallsWaiting ==
    [uuid : {Str(Uuid16)}, auth_key : {Str(Auth32)},
     product_key : {None, Str(<<>>), Str(Key16)},
     firmware_key : {None, Str(<<>>), Str(FwKey)},
     software_version : {Str(<<"1", ".", "0", ".", "5">>)},
     cad_version : {Str(<<"1", ".", "0", ".", "2">>)},
     baseline_version : {Str(<<"4", "0", ".", "0", "0">>)},
     output_file_prefix : {Str(<<"d", "e", "v", "i", "c", "e">>)},
     token : {None, Str(TokenShort)}]

InitListen ==
    /\ args \in CallsWaiting
    /\ pc = "validate"
    /\ uuid = args.uuid
    /\ token = args.token
    /\ region = None
    /\ connection = None
    /\ attempts = <<>>
    /\ response = None
    /\ responses = <<>>
    /\ report = NoReport
    /\ written = {}
    /\ exitcode = -1
    /\ multicast_token = None
    /\ cancel_thread = FALSE
    /\ lpc = "idle"
    /\ received_token = FALSE
    /\ msg = <<>>
    /\ lastrecv = "none"
    /\ pskret = None
    /\ pskhint = None
    /\ pskcalls = 0

ListenerFairness ==
    /\ WF_vars(ListenerLoop)
    /\ WF_vars(ListenerDatagram \/ ListenerTimeout)

SpecListen == InitListen /\ [][Next]_vars /\ ListenerFairness

\* C15: once cancel_thread is set, a listener thread that was started leaves
\* its loop, whatever datagrams arrive or do not arrive afterwards; a listener
\* that has left its loop stays out of it and publishes nothing any more, and
\* a listener that finds the flag set at its loop test leaves the loop.
C15_ListenerCancellable ==
    /\ (cancel_thread /\ lpc # "idle") ~> (lpc = "exit")
    /\ [][ /\ lpc = "exit" =>
                (lpc' = "exit" /\ multicast_token' = multicast_token
                 /\ received_token' = received_token)
           /\ (lpc = "loop" /\ cancel_thread /\ lpc' # lpc) => lpc' = "exit"
           /\ cancel_thread => cancel_thread'
         ]_vars

\* the flag was set while the listener waited in recvfrom; a timeout later it
\* has left the loop without a token
C15_Witness ==
    /\ cancel_thread
    /\ lpc = "exit"
    /\ lastrecv = "timeout"
    /\ ~received_token
    /\ IsNone(multicast_token)

-----------------------------------------------------------------------------
(* Properties of the PSK handshake callback, continued *)

\* initId of the two derivations without its version byte, for a draw r
C16_BodyV1(conn, r) == ReplaceNul(r \o md5(conn.uuid) \o <<95>> \o md5(conn.authkey))
C16_BodyV2(conn, r) == ReplaceNul(r \o sha256(conn.uuid))

\* C16 as stated: the identity a callback returns is initId without its
\* version byte: 49 bytes (r, uuidHash, '_', authHash after NUL substitution)
\* from v1, 48 bytes from v2.
C16_Original ==
    [][ C9_Callback =>
          IF connection.psk = <<>>
          THEN /\ Len(pskret'.identity) = 49
               /\ \E r \in RandDraws : pskret'.identity = C16_BodyV1(connection, r)
          ELSE /\ Len(pskret'.identity) = 48
               /\ \E r \in RandDraws : pskret'.identity = C16_BodyV2(connection, r)
      ]_vars

\* C16, amended: the identity a callback returns is the whole initId, version
\* byte included: from v1 the 50 bytes 0x01, r, uuidHash, '_', authHash after
\* NUL substitution, from v2 the 49 bytes 0x02, r, uuidHash after NUL
\* substitution; only the v1 secret is computed from initId[1:].  The secret
\* returned is the one derived (v1) or the one already held (v2).
C16_IdentityKeepsVersionTag ==
    [][ C9_Callback =>
          /\ \A i \in 1..Len(pskret'.identity) : pskret'.identity[i] # 0
          /\ IF connection.psk = <<>>
             THEN /\ Len(pskret'.identity) = 50
                  /\ pskret'.identity[1] = 1
                  /\ \E r \in RandDraws :
                        Tail(pskret'.identity) = C16_BodyV1(connection, r)
                  /\ \E hint \in Hints :
                        pskret'.secret =
                            CbcEncrypt(md5(Last16(hint)),
                                       md5(Tail(pskret'.identity)),
                                       SubSeq(pskret'.identity, 2, 33))
             ELSE /\ Len(pskret'.identity) = 49
                  /\ pskret'.identity[1] = 2
                  /\ \E r \in RandDraws :
                        Tail(pskret'.identity) = C16_BodyV2(connection, r)
                  /\ pskret'.secret = connection.psk
      ]_vars

\* a v1 callback whose 16 random bytes were all NUL
C16_Witness ==
    /\ pskcalls = 1
    /\ Len(pskret.identity) = 50
    /\ pskret.identity[1] = 1
    /\ \A i \in 2..17 : pskret.identity[i] = 63
    /\ Len(pskret.secret) = 32

\* C17: a v1 callback that is given a hint of fewer than 16 bytes fails: it
\* returns no (secret, identity) pair and the held secret stays unset; a
\* secret is derived only from a hint of 16 bytes or more.
C17_ShortHintFails ==
    [][ (C9_Callback /\ connection.psk = <<>>) =>
          /\ Len(pskhint') < 16 => (pskret' = None /\ connection'.psk = <<>>)
          /\ connection'.psk # <<>> => Len(pskhint') >= 16
      ]_vars

\* What lines 131-134 do: hint[-16:] is the whole hint when it has fewer than
\* 16 bytes, and the key is the digest of that; every v1 callback returns a
\* pair and stores a 32-byte secret, whatever the length of the hint.
ShortHintDerivesKey ==
    [][ (C9_Callback /\ connection.psk = <<>>) =>
          /\ Len(pskret'.secret) = 32
          /\ connection'.psk = pskret'.secret
          /\ Len(pskhint') < 16 =>
                pskret'.secret =
                    CbcEncrypt(md5(pskhint'), md5(Tail(pskret'.identity)),
                               SubSeq(pskret'.identity, 2, 33))
      ]_vars

-----------------------------------------------------------------------------
(* Properties of the orchestrator, continued *)

\* C18: no attempt carries an empty key: for every input that passes
\* validation, the empty string for an unused key included, each attempt
\* carries the product key or the firmware key of the call, and that key is
\* not empty.
C18_NoEmptyKey ==
    \A i \in 1..Len(attempts) :
        /\ KeyOf(attempts[i]) \in {args.product_key, args.firmware_key}
        /\ IsStr(KeyOf(attempts[i]))
        /\ Len(KeyOf(attempts[i]).v) > 0

\* What lines 272 and 280 guarantee: a key that is sent is not None.
NoAttemptWithNoneKey ==
    \A i \in 1..Len(attempts) :
        /\ KeyOf(attempts[i]) \in {args.product_key, args.firmware_key}
        /\ IsStr(KeyOf(attempts[i]))

-----------------------------------------------------------------------------
(* Properties of the wait for a token, continued *)

\* C19: when the listener has left its loop because it accepted a frame, the
\* shared token is not None, so the poll loop of get_new_token() can end:
\* there is no state in which the listener is gone after accepting a frame
\* while the shared token is still None.
C19_AcceptedFrameSetsToken ==
    (lpc = "exit" /\ received_token) => ~IsNone(multicast_token)

\* What lines 216-219 guarantee: the shared token is the token member of the
\* frame accepted last, whatever JSON value that is (null included), and once
\* a frame was accepted the listener receives no more.
AcceptedFramePublishesMember ==
    received_token =>
        /\ lastrecv = "datagram"
        /\ Parsed[msg].stage = "ok"
        /\ multicast_token = Parsed[msg].token
        /\ lpc \in {"loop", "exit"}

-----------------------------------------------------------------------------
(* Properties of the orchestrator, continued *)

\* the run has passed validation and the decoding of token and region
C20_Decoded == ~IsNone(connection)
\* the run has gone through lines 272-286 without a failure inside request()
\* or on a response without errorCode
C20_AtReport ==
    \/ pc = "report"
    \/ pc = "done" /\ report.kind \in {"schema", "expired", "response"}

\* C20: a run that passes validation and the decoding of token and region
\* issues at least one attempt: with no product key the firmware key is
\* there and AttemptC is due, so the final report is reached only with at
\* least one attempt sent and answered, and the response it reads is never
\* the initial None, whichever of the two keys is absent, empty or set.
C20_ResponseDefinedAtReport ==
    /\ C20_AtReport =>
          /\ C20_Decoded
          /\ Len(attempts) >= 1
          /\ Len(responses) = Len(attempts)
          /\ ~IsNone(response)
          /\ response = responses[Len(responses)]
    /\ (C20_Decoded /\ IsNone(args.product_key)) => ~Empty(args.firmware_key)
    /\ (pc = "attemptC" /\ IsNone(response)) =>
          (IsNone(args.product_key) /\ FirmwarePath(response, args.firmware_key))
    /\ (C20_Decoded /\ pc = "done" /\ attempts = <<>>) =>
          \/ (exitcode = 1 /\ report = [kind |-> "traceback", text |-> "OSError"])
          \/ (exitcode = 3 /\ report.kind = "fatal" /\ report.error = "OSError")
    /\ ~(C20_Decoded /\ pc = "done"
         /\ report = [kind |-> "traceback", text |-> "TypeError"])

\* the report is reached without a product key, after the one firmware-key
\* attempt
C20_Witness ==
    /\ pc = "report"
    /\ IsNone(args.product_key)
    /\ args.firmware_key = Str(FwKey)
    /\ Len(attempts) = 1
    /\ response = Fail("PERMISSION_DENIED")

====
